---- MODULE Spec2Model ----
(***************************************************************************)
(* Model of src/main.go: the vanity-address search of the Action closure.  *)
(* One coordinator (the Action body) and numWorkers worker goroutines      *)
(* share the attempt counter totalIterations, the capacity-one channel     *)
(* resultCh, the cancellation context ctx and the WaitGroup wg.            *)
(*                                                                         *)
(* Strings are sequences of code points.  A public key is held as its      *)
(* base-58 digit expansion (the radix conversion of the byte string is     *)
(* not modelled); Encode maps each digit to its alphabet character.        *)
(***************************************************************************)
EXTENDS Integers, Sequences, FiniteSets, TLC

\* ---------------------------------------------------------------- bounds
\* Largest runtime.NumCPU() explored.
MaxWorkers == 2
\* Cap on totalIterations: no worker starts an iteration beyond it.
MaxAttempts == 4
\* Longest prefix, postfix and address of the matcher specification.
MaxLen == 2
\* Largest runtime.NumCPU() of the fair specification.
FairWorkers == 3
\* Longest seed of the private keys of the JSON specification.
MaxSeed == 2

\* ------------------------------------------------------ program constants
\* make(chan Result, 1)
ChanCap == 1

Workers == 1..(IF FairWorkers > MaxWorkers THEN FairWorkers ELSE MaxWorkers)

\* --------------------------------------------------------------- strings
sEmpty == << >>
sAAA == <<65, 65, 65>>
saaa == <<97, 97, 97>>
sxyz == <<120, 121, 122>>
sbbb == <<98, 98, 98>>
sAAAxyz123 == <<65, 65, 65, 120, 121, 122, 49, 50, 51>>
sAAAxyz == <<65, 65, 65, 120, 121, 122>>

\* strings.ToLower on ASCII: 'A'..'Z' become 'a'..'z', the rest is kept.
ToLower(s) ==
    [n \in 1..Len(s) |-> IF s[n] >= 65 /\ s[n] <= 90 THEN s[n] + 32 ELSE s[n]]

\* strings.HasPrefix: len(s) >= len(p) && s[:len(p)] == p
HasPrefix(s, p) ==
    Len(s) >= Len(p) /\ SubSeq(s, 1, Len(p)) = p

\* strings.HasSuffix: len(s) >= len(p) && s[len(s)-len(p):] == p
HasSuffix(s, p) ==
    Len(s) >= Len(p) /\ SubSeq(s, Len(s) - Len(p) + 1, Len(s)) = p

\* The base-58 alphabet 123456789ABCDEFGHJKLMNPQRSTUVWXYZabcdefghijkmnopqrstuvwxyz
\* as the code point of digit d (0..57).
B58Char(d) ==
    IF d < 9 THEN 49 + d
    ELSE IF d < 17 THEN 65 + (d - 9)
    ELSE IF d < 22 THEN 74 + (d - 17)
    ELSE IF d < 33 THEN 80 + (d - 22)
    ELSE IF d < 44 THEN 97 + (d - 33)
    ELSE 109 + (d - 44)

\* base58.Encode(publicKey): one alphabet character per base-58 digit.
Encode(publicKey) ==
    [n \in 1..Len(publicKey) |-> B58Char(publicKey[n])]

\* ------------------------------------------------------------ key source
\* Public keys (base-58 digits) of the addresses xyz, bbb, AAAxyz123, AAAxyz.
kxyz == <<55, 56, 57>>
kbbb == <<34, 34, 34>>
kAAAxyz123 == <<9, 9, 9, 55, 56, 57, 0, 1, 2>>
kAAAxyz == <<9, 9, 9, 55, 56, 57>>

\* The public keys the key source of the search specification may yield.
SearchKeys == {kxyz, kbbb, kAAAxyz123, kAAAxyz}

\* Digits of 'A', 'a', 'x' and the characters themselves.
MatchDigits == {9, 33, 55}
MatchChars == {65, 97, 120}

SeqsUpTo(S, n) == UNION {[1..m -> S] : m \in 0..n}

\* The public keys and the patterns of the matcher specification.
MatchKeys == (SeqsUpTo(MatchDigits, MaxLen) \ {sEmpty}) \cup SearchKeys
MatchStrings == SeqsUpTo(MatchChars, MaxLen) \cup {sAAA, saaa, sxyz}

\* ed25519.GenerateKey's three results.  The private key is the seed
\* followed by the public key; the seed is a function of the public key here.
Keypair(pub) ==
    [publicKey |-> pub,
     privateKey |-> [n \in 1..Len(pub) |-> 255 - pub[n]] \o pub,
     err |-> FALSE]

KeyGenFailure == [publicKey |-> << >>, privateKey |-> << >>, err |-> TRUE]

NoKey == [publicKey |-> << >>, privateKey |-> << >>, err |-> FALSE]

\* The zero value of Result.
ZeroResult == [Address |-> << >>, PublicKey |-> << >>, PrivateKey |-> << >>]

VARIABLES
    prefix,           \* c.String("prefix")
    postfix,          \* c.String("postfix")
    caseSensitive,    \* c.Bool("case-sensitive")
    numWorkers,       \* runtime.NumCPU()
    keySpace,         \* the public keys rand.Reader can lead GenerateKey to
    mpc,              \* the coordinator's position in the Action body
    i,                \* the spawn loop's counter
    wg,               \* the WaitGroup's counter
    totalIterations,  \* the shared attempt counter
    resultCh,         \* the buffered channel's content
    ctxDone,          \* whether ctx.Done() is closed
    pc,               \* each worker's position
    key,              \* each worker's publicKey, privateKey, err
    result,           \* the Result the coordinator received
    reported,         \* what the coordinator printed: address and attempts
    generated,        \* history: GenerateKey's results, in call order
    sends,            \* history: successful sends into resultCh
    cancels,          \* history: workers' calls of cancel()
    cancelMark        \* history: totalIterations when ctx was cancelled

vars == <<prefix, postfix, caseSensitive, numWorkers, keySpace, mpc, i, wg,
          totalIterations, resultCh, ctxDone, pc, key, result, reported,
          generated, sends, cancels, cancelMark>>

config == <<prefix, postfix, caseSensitive, numWorkers, keySpace>>

\* ------------------------------------------------------- pattern matcher
\* A plausible slip: only the address is folded, the pattern is compared as given.
MatchesFoldAddressOnly(address, pre, post, cs) ==
    LET checkAddress == IF cs THEN address ELSE ToLower(address)
    IN  /\ ~(pre # << >> /\ ~HasPrefix(checkAddress, pre))
        /\ ~(post # << >> /\ ~HasSuffix(checkAddress, post))

\* A plausible slip: the postfix is tested with HasPrefix.
MatchesPostfixAsPrefix(address, pre, post, cs) ==
    LET checkAddress == IF cs THEN address ELSE ToLower(address)
        checkPrefix == IF cs THEN pre ELSE ToLower(pre)
        checkPostfix == IF cs THEN post ELSE ToLower(post)
    IN  /\ ~(pre # << >> /\ ~HasPrefix(checkAddress, checkPrefix))
        /\ ~(post # << >> /\ ~HasPrefix(checkAddress, checkPostfix))

\* Lines 105-120: TRUE when neither `continue` is taken.
Matches(address, pre, post, cs) ==
    LET checkAddress == IF cs THEN address ELSE ToLower(address)
        checkPrefix == IF cs THEN pre ELSE ToLower(pre)
        checkPostfix == IF cs THEN post ELSE ToLower(post)
    IN  /\ ~(pre # << >> /\ ~HasPrefix(checkAddress, checkPrefix))
        /\ ~(post # << >> /\ ~HasSuffix(checkAddress, checkPostfix))

\* A plausible slip: the Result carries the case-folded address.
NewResultFoldedAddress(k) ==
    [Address |-> ToLower(Encode(k.publicKey)),
     PublicKey |-> k.publicKey,
     PrivateKey |-> k.privateKey]

\* Lines 124-128: the Result a worker sends.
NewResult(k) ==
    [Address |-> Encode(k.publicKey),
     PublicKey |-> k.publicKey,
     PrivateKey |-> k.privateKey]

\* ------------------------------------------------------ privateKeyToJSON
\* A plausible slip: the byte is converted as a signed one, int(int8(b)).
ByteToIntSigned(b) == IF b >= 128 THEN b - 256 ELSE b

\* Line 32: int(b), the value of the byte.
ByteToInt(b) == b

\* An int in decimal, as encoding/json writes it (strconv).
RECURSIVE Decimal(_)
Decimal(n) ==
    IF n < 0 THEN <<45>> \o Decimal(0 - n)
    ELSE IF n < 10 THEN <<48 + n>>
    ELSE Decimal(n \div 10) \o <<48 + (n % 10)>>

\* The first n elements of json.MarshalIndent(ints, "", "  "): each on a
\* line of its own, indented by two spaces, a comma after all but the last.
RECURSIVE IndentedItems(_, _)
IndentedItems(ints, n) ==
    IF n = 0 THEN << >>
    ELSE IndentedItems(ints, n - 1)
         \o (IF n > 1 THEN <<44>> ELSE << >>)
         \o <<10, 32, 32>> \o Decimal(ints[n])

\* Line 34: json.MarshalIndent(ints, "", "  "); an empty slice gives [].
MarshalIndent(ints) ==
    IF Len(ints) = 0 THEN <<91, 93>>
    ELSE <<91>> \o IndentedItems(ints, Len(ints)) \o <<10, 93>>

\* Lines 29-39.
privateKeyToJSON(privateKey) ==
    MarshalIndent([n \in 1..Len(privateKey) |-> ByteToInt(privateKey[n])])

\* ------------------------------------------------------------------ Init
InitShared ==
    /\ totalIterations = 0
    /\ resultCh = << >>
    /\ ctxDone = FALSE
    /\ result = ZeroResult
    /\ reported = << >>
    /\ generated = << >>
    /\ sends = 0
    /\ cancels = 0
    /\ cancelMark = -1

Init ==
    /\ prefix \in {sEmpty, sAAA}
    /\ postfix \in {sEmpty, sxyz}
    /\ caseSensitive \in BOOLEAN
    /\ numWorkers \in 1..MaxWorkers
    /\ keySpace = SearchKeys
    /\ mpc = "validate"
    /\ i = 0
    /\ wg = 0
    /\ pc = [w \in Workers |-> "unspawned"]
    /\ key = [w \in Workers |-> NoKey]
    /\ InitShared

\* ----------------------------------------------------------- coordinator
\* A plausible slip: the validation is missing.
CoordValidateNoCheck ==
    /\ mpc = "validate"
    /\ mpc' = "spawn"
    /\ UNCHANGED <<config, i, wg, totalIterations, resultCh, ctxDone, pc, key,
                   result, reported, generated, sends, cancels, cancelMark>>

\* Lines 64-70.
CoordValidate ==
    /\ mpc = "validate"
    /\ mpc' = IF prefix = << >> /\ postfix = << >> THEN "error" ELSE "spawn"
    /\ UNCHANGED <<config, i, wg, totalIterations, resultCh, ctxDone, pc, key,
                   result, reported, generated, sends, cancels, cancelMark>>

\* Lines 86-88: one turn of the spawn loop, or its end.
CoordSpawn ==
    /\ mpc = "spawn"
    /\ IF i < numWorkers
       THEN /\ wg' = wg + 1
            /\ pc' = [pc EXCEPT ![i + 1] = "check"]
            /\ i' = i + 1
            /\ mpc' = mpc
       ELSE /\ mpc' = "recv"
            /\ UNCHANGED <<wg, pc, i>>
    /\ UNCHANGED <<config, totalIterations, resultCh, ctxDone, key, result,
                   reported, generated, sends, cancels, cancelMark>>

\* A plausible slip: a receive that does not block (select with default).
CoordRecvNonBlocking ==
    /\ mpc = "recv"
    /\ IF Len(resultCh) > 0
       THEN result' = Head(resultCh) /\ resultCh' = Tail(resultCh)
       ELSE UNCHANGED <<result, resultCh>>
    /\ mpc' = "wait"
    /\ UNCHANGED <<config, i, wg, totalIterations, ctxDone, pc, key, reported,
                   generated, sends, cancels, cancelMark>>

\* Line 139: result := <-resultCh.
CoordRecv ==
    /\ mpc = "recv"
    /\ Len(resultCh) > 0
    /\ result' = Head(resultCh)
    /\ resultCh' = Tail(resultCh)
    /\ mpc' = "wait"
    /\ UNCHANGED <<config, i, wg, totalIterations, ctxDone, pc, key, reported,
                   generated, sends, cancels, cancelMark>>

\* A plausible slip: the join is missing.
CoordWaitNoJoin ==
    /\ mpc = "wait"
    /\ mpc' = "report"
    /\ UNCHANGED <<config, i, wg, totalIterations, resultCh, ctxDone, pc, key,
                   result, reported, generated, sends, cancels, cancelMark>>

\* Line 140: wg.Wait().
CoordWait ==
    /\ mpc = "wait"
    /\ wg = 0
    /\ mpc' = "report"
    /\ UNCHANGED <<config, i, wg, totalIterations, resultCh, ctxDone, pc, key,
                   result, reported, generated, sends, cancels, cancelMark>>

\* Lines 141-153 and the deferred cancel() of line 81.
CoordReport ==
    /\ mpc = "report"
    /\ reported' = Append(reported, [Address |-> result.Address,
                                     PublicKey |-> result.PublicKey,
                                     PrivateKey |-> result.PrivateKey,
                                     pkJSON |-> privateKeyToJSON(result.PrivateKey),
                                     attempts |-> totalIterations])
    /\ ctxDone' = TRUE
    /\ cancelMark' = IF ctxDone THEN cancelMark ELSE totalIterations
    /\ mpc' = "done"
    /\ UNCHANGED <<config, i, wg, totalIterations, resultCh, pc, key, result,
                   generated, sends, cancels>>

\* --------------------------------------------------------------- workers
\* Iterations already begun: counted ones and those past the check.
Begun == totalIterations + Cardinality({w \in Workers : pc[w] = "inc"})

\* A plausible slip: a worker gives up once the attempts are used up.
WorkerCheckGiveUp(w) ==
    /\ pc[w] = "check"
    /\ pc' = [pc EXCEPT ![w] =
                IF ctxDone \/ Begun >= MaxAttempts THEN "exit" ELSE "inc"]
    /\ UNCHANGED <<config, mpc, i, wg, totalIterations, resultCh, ctxDone, key,
                   result, reported, generated, sends, cancels, cancelMark>>

\* A plausible slip: the loop never looks at ctx.Done().
WorkerCheckBlind(w) ==
    /\ pc[w] = "check"
    /\ Begun < MaxAttempts
    /\ pc' = [pc EXCEPT ![w] = "inc"]
    /\ UNCHANGED <<config, mpc, i, wg, totalIterations, resultCh, ctxDone, key,
                   result, reported, generated, sends, cancels, cancelMark>>

\* Lines 92-96: the non-blocking check of ctx.Done().
WorkerCheck(w) ==
    /\ pc[w] = "check"
    /\ ctxDone \/ Begun < MaxAttempts
    /\ pc' = [pc EXCEPT ![w] = IF ctxDone THEN "exit" ELSE "inc"]
    /\ UNCHANGED <<config, mpc, i, wg, totalIterations, resultCh, ctxDone, key,
                   result, reported, generated, sends, cancels, cancelMark>>

\* A plausible slip: the increment is missing.
WorkerIncOmitted(w) ==
    /\ pc[w] = "inc"
    /\ pc' = [pc EXCEPT ![w] = "gen"]
    /\ UNCHANGED <<config, mpc, i, wg, totalIterations, resultCh, ctxDone, key,
                   result, reported, generated, sends, cancels, cancelMark>>

\* A plausible slip: a plain totalIterations++, which loses an update when two
\* workers increment at once.
WorkerIncRacy(w) ==
    /\ pc[w] = "inc"
    /\ totalIterations' =
          IF \E v \in Workers \ {w} : pc[v] = "inc"
          THEN totalIterations ELSE totalIterations + 1
    /\ pc' = [pc EXCEPT ![w] = "gen"]
    /\ UNCHANGED <<config, mpc, i, wg, resultCh, ctxDone, key, result,
                   reported, generated, sends, cancels, cancelMark>>

\* Line 97: atomic.AddInt64(&totalIterations, 1).
WorkerInc(w) ==
    /\ pc[w] = "inc"
    /\ totalIterations' = totalIterations + 1
    /\ pc' = [pc EXCEPT ![w] = "gen"]
    /\ UNCHANGED <<config, mpc, i, wg, resultCh, ctxDone, key, result,
                   reported, generated, sends, cancels, cancelMark>>

\* A plausible slip: a failed GenerateKey ends the worker (`return`).
WorkerGenFailureFatal(w) ==
    /\ pc[w] = "gen"
    /\ \E out \in {KeyGenFailure} \cup {Keypair(p) : p \in keySpace} :
          /\ key' = [key EXCEPT ![w] = out]
          /\ generated' = Append(generated, out)
          /\ pc' = [pc EXCEPT ![w] =
                      IF out.err THEN "exit"
                      ELSE IF Matches(Encode(out.publicKey), prefix, postfix,
                                      caseSensitive)
                           THEN "send" ELSE "check"]
    /\ UNCHANGED <<config, mpc, i, wg, totalIterations, resultCh, ctxDone,
                   result, reported, sends, cancels, cancelMark>>

\* A plausible slip: the pattern tests do not `continue`.
WorkerGenNoContinue(w) ==
    /\ pc[w] = "gen"
    /\ \E out \in {KeyGenFailure} \cup {Keypair(p) : p \in keySpace} :
          /\ key' = [key EXCEPT ![w] = out]
          /\ generated' = Append(generated, out)
          /\ pc' = [pc EXCEPT ![w] = IF out.err THEN "check" ELSE "send"]
    /\ UNCHANGED <<config, mpc, i, wg, totalIterations, resultCh, ctxDone,
                   result, reported, sends, cancels, cancelMark>>

\* Lines 98-120: GenerateKey, the address and the two pattern tests.
WorkerGen(w) ==
    /\ pc[w] = "gen"
    /\ \E out \in {KeyGenFailure} \cup {Keypair(p) : p \in keySpace} :
          /\ key' = [key EXCEPT ![w] = out]
          /\ generated' = Append(generated, out)
          /\ pc' = [pc EXCEPT ![w] =
                      IF out.err THEN "check"
                      ELSE IF Matches(Encode(out.publicKey), prefix, postfix,
                                      caseSensitive)
                           THEN "send" ELSE "check"]
    /\ UNCHANGED <<config, mpc, i, wg, totalIterations, resultCh, ctxDone,
                   result, reported, sends, cancels, cancelMark>>

\* Lines 123-128: the select's send case.
WorkerSend(w) ==
    /\ pc[w] = "send"
    /\ Len(resultCh) < ChanCap
    /\ resultCh' = Append(resultCh, NewResult(key[w]))
    /\ sends' = sends + 1
    /\ pc' = [pc EXCEPT ![w] = "cancel"]
    /\ UNCHANGED <<config, mpc, i, wg, totalIterations, ctxDone, key, result,
                   reported, generated, cancels, cancelMark>>

\* A plausible slip: a plain send, with no ctx.Done() case.
WorkerSendNoDoneCase(w) ==
    /\ pc[w] = "send"
    /\ FALSE
    /\ UNCHANGED vars

\* A plausible slip: the ctx.Done() case goes round the loop (`continue`).
WorkerSendRetry(w) ==
    /\ pc[w] = "send"
    /\ ctxDone
    /\ pc' = [pc EXCEPT ![w] = "check"]
    /\ UNCHANGED <<config, mpc, i, wg, totalIterations, resultCh, ctxDone, key,
                   result, reported, generated, sends, cancels, cancelMark>>

\* Lines 131-132: the select's ctx.Done() case.
WorkerSendDone(w) ==
    /\ pc[w] = "send"
    /\ ctxDone
    /\ pc' = [pc EXCEPT ![w] = "exit"]
    /\ UNCHANGED <<config, mpc, i, wg, totalIterations, resultCh, ctxDone, key,
                   result, reported, generated, sends, cancels, cancelMark>>

\* Line 129: cancel().
WorkerCancel(w) ==
    /\ pc[w] = "cancel"
    /\ ctxDone' = TRUE
    /\ cancelMark' = IF ctxDone THEN cancelMark ELSE totalIterations
    /\ cancels' = cancels + 1
    /\ pc' = [pc EXCEPT ![w] = "exit"]
    /\ UNCHANGED <<config, mpc, i, wg, totalIterations, resultCh, key, result,
                   reported, generated, sends>>

\* Line 89: the deferred wg.Done() of every return.
WorkerExit(w) ==
    /\ pc[w] = "exit"
    /\ wg' = wg - 1
    /\ pc' = [pc EXCEPT ![w] = "done"]
    /\ UNCHANGED <<config, mpc, i, totalIterations, resultCh, ctxDone, key,
                   result, reported, generated, sends, cancels, cancelMark>>

Worker(w) ==
    \/ WorkerCheck(w)
    \/ WorkerInc(w)
    \/ WorkerGen(w)
    \/ WorkerSend(w)
    \/ WorkerSendDone(w)
    \/ WorkerCancel(w)
    \/ WorkerExit(w)

Coordinator ==
    \/ CoordValidate
    \/ CoordSpawn
    \/ CoordRecv
    \/ CoordWait
    \/ CoordReport

Next ==
    \/ Coordinator
    \/ \E w \in Workers : Worker(w)

\* The search.
Spec == Init /\ [][Next]_vars

\* A run with up to FairWorkers workers hunting the prefix AAA.
FairInit ==
    /\ prefix = sAAA
    /\ postfix = sEmpty
    /\ caseSensitive = TRUE
    /\ numWorkers \in 1..FairWorkers
    /\ keySpace = {kbbb, kAAAxyz123}
    /\ mpc = "validate"
    /\ i = 0
    /\ wg = 0
    /\ pc = [w \in Workers |-> "unspawned"]
    /\ key = [w \in Workers |-> NoKey]
    /\ InitShared

\* The search under the Go scheduler: every goroutine that can run does.
FairSpec ==
    /\ FairInit
    /\ [][Next]_vars
    /\ WF_vars(Coordinator)
    /\ \A w \in Workers : WF_vars(Worker(w))

\* ---------------------------------------------- the matcher on its own
\* One worker of a one-CPU run, after its first increment, about to call
\* GenerateKey, for every pattern and every key up to MaxLen.
MatchInit ==
    /\ prefix \in MatchStrings
    /\ postfix \in MatchStrings
    /\ ~(prefix = << >> /\ postfix = << >>)
    /\ caseSensitive \in BOOLEAN
    /\ numWorkers = 1
    /\ keySpace = MatchKeys
    /\ mpc = "recv"
    /\ i = 1
    /\ wg = 1
    /\ pc = [w \in Workers |-> IF w = 1 THEN "gen" ELSE "unspawned"]
    /\ key = [w \in Workers |-> NoKey]
    /\ totalIterations = 1
    /\ resultCh = << >>
    /\ ctxDone = FALSE
    /\ result = ZeroResult
    /\ reported = << >>
    /\ generated = << >>
    /\ sends = 0
    /\ cancels = 0
    /\ cancelMark = -1

MatchNext ==
    \E w \in Workers : WorkerGen(w) \/ WorkerSend(w)

MatchSpec == MatchInit /\ [][MatchNext]_vars

\* ------------------------------------------- privateKeyToJSON on its own
\* Byte values with one, two and three decimal digits.
JsonBytes == {0, 1, 9, 10, 99, 100, 128, 255}

\* A keypair of the address xyz with the given seed.
SeededKeypair(seed) ==
    [publicKey |-> kxyz, privateKey |-> seed \o kxyz, err |-> FALSE]

\* A one-worker run that found xyz for the postfix xyz, joined, and is about
\* to report, for every seed up to MaxSeed.
JsonInit ==
    \E seed \in SeqsUpTo(JsonBytes, MaxSeed) :
        /\ prefix = sEmpty
        /\ postfix = sxyz
        /\ caseSensitive = TRUE
        /\ numWorkers = 1
        /\ keySpace = {kxyz}
        /\ mpc = "report"
        /\ i = 1
        /\ wg = 0
        /\ pc = [w \in Workers |-> IF w = 1 THEN "done" ELSE "unspawned"]
        /\ key = [w \in Workers |-> IF w = 1 THEN SeededKeypair(seed) ELSE NoKey]
        /\ totalIterations = 1
        /\ resultCh = << >>
        /\ ctxDone = TRUE
        /\ result = NewResult(SeededKeypair(seed))
        /\ reported = << >>
        /\ generated = <<SeededKeypair(seed)>>
        /\ sends = 1
        /\ cancels = 1
        /\ cancelMark = 1

JsonNext == CoordReport

JsonSpec == JsonInit /\ [][JsonNext]_vars

\* ------------------------------------------------ vocabulary of the claims
\* Worker w's last GenerateKey call gave a keypair whose address matches.
HoldsMatch(w) ==
    /\ key[w] # NoKey
    /\ ~key[w].err
    /\ Matches(Encode(key[w].publicKey), prefix, postfix, caseSensitive)

\* The coordinator is past line 139.
PastRecv == mpc \in {"wait", "report", "done"}

\* Results taken out of resultCh so far.
Received == sends - Len(resultCh)

\* The coordinator has returned and every spawned worker has exited.
AllExited == mpc = "done" /\ \A w \in 1..numWorkers : pc[w] = "done"

\* The calls of GenerateKey that gave a matching keypair, and the first of them.
MatchIdx ==
    {n \in 1..Len(generated) :
        /\ ~generated[n].err
        /\ Matches(Encode(generated[n].publicKey), prefix, postfix, caseSensitive)}

FirstMatch == CHOOSE n \in MatchIdx : \A m \in MatchIdx : n <= m

\* p is a prefix (s a suffix) of a: a is p followed (s preceded) by a rest.
IsPrefixOf(p, a) == \E n \in 0..Len(a) : p \o SubSeq(a, n + 1, Len(a)) = a
IsSuffixOf(s, a) == \E n \in 0..Len(a) : SubSeq(a, 1, n) \o s = a

\* Worker w went on to the publish select with its last keypair.
Accepted(w) == pc[w] \in {"send", "cancel"}

\* Worker w's last GenerateKey call gave a keypair.
HasKeypair(w) == key[w] # NoKey /\ ~key[w].err

\* --------------------------------------------------------------- claims
\* C1: for every worker count and interleaving the coordinator takes exactly
\* one Result out of the channel per run: once past the receive it holds the
\* Result of a generated keypair, it never passes the receive without one,
\* and it reports one Result, the one it received.
C1_ExactlyOneResult ==
    /\ Received = (IF PastRecv THEN 1 ELSE 0)
    /\ PastRecv =>
          /\ result # ZeroResult
          /\ \E n \in MatchIdx : result = NewResult(generated[n])
    /\ Len(reported) = (IF mpc = "done" THEN 1 ELSE 0)
    /\ mpc = "done" => reported[1].Address = result.Address

\* C1 witness: a finished run in which every one of two workers generated
\* a matching address.
C1_Witness ==
    /\ mpc = "done"
    /\ numWorkers = 2
    /\ \A w \in 1..numWorkers : HoldsMatch(w)
    /\ Len(reported) = 1

\* C2 (as claimed): at most one send into resultCh succeeds in a run.
C2_SinglePublish == sends <= 1

\* C3 (as claimed): once ctx is cancelled no send into resultCh succeeds.
C3_NoPublishAfterCancel == [][ctxDone => sends' = sends]_vars

\* C4: under fair scheduling, once a worker has generated a matching address
\* (it stands at the publish select), eventually the coordinator has returned
\* and every worker has exited.
C4_Termination == (\E w \in Workers : pc[w] = "send") ~> AllExited

\* C4 witness: a finished run of three workers that all matched: two sends
\* succeeded (the slot was drained once and filled again) and the third worker
\* left its select by ctx.Done().
C4_Witness ==
    /\ AllExited
    /\ numWorkers = 3
    /\ \A w \in 1..numWorkers : HoldsMatch(w)
    /\ sends = 2
    /\ Len(resultCh) = 1

\* C5: the coordinator is past wg.Wait() only when every spawned worker has
\* exited, and the attempt count it reported is the counter's value for good.
C5_ReadAfterJoin ==
    /\ mpc \in {"report", "done"} => \A w \in 1..numWorkers : pc[w] = "done"
    /\ mpc = "done" => reported[1].attempts = totalIterations

\* C5 witness: a finished two-worker run in which both workers counted attempts.
C5_Witness ==
    /\ mpc = "done"
    /\ numWorkers = 2
    /\ \A w \in 1..numWorkers : key[w] # NoKey
    /\ reported[1].attempts = totalIterations

\* C6 (as claimed): the reported address is that of the first generated
\* keypair that matches, the Nth, and the reported attempts are at least N.
C6_FirstMatchReported ==
    mpc = "done" /\ MatchIdx # {} =>
        /\ reported[1].Address = Encode(generated[FirstMatch].publicKey)
        /\ reported[1].attempts >= FirstMatch

\* C6 (amended): the reported address is that of a generated matching keypair,
\* the Mth with M >= N, the reported attempts are at least M, and M = N when
\* there is one worker.
C6_SomeMatchReported ==
    mpc = "done" =>
        /\ MatchIdx # {}
        /\ \E m \in MatchIdx :
              /\ m >= FirstMatch
              /\ reported[1].Address = Encode(generated[m].publicKey)
              /\ reported[1].attempts >= m
              /\ numWorkers = 1 => m = FirstMatch

\* C6 witness: a finished two-worker run reporting a matching keypair that
\* was not the first one generated.
C6_Witness ==
    /\ mpc = "done"
    /\ numWorkers = 2
    /\ MatchIdx # {}
    /\ reported[1].Address # Encode(generated[FirstMatch].publicKey)

\* The scenario of C7: prefix AAA, case-sensitive, and a key source that
\* yields the addresses xyz, bbb, AAAxyz123 and then is exhausted (fails).
C7_Scenario ==
    /\ prefix = sAAA
    /\ postfix = sEmpty
    /\ caseSensitive
    /\ Len(generated) >= 3
    /\ \A n \in 1..3 : ~generated[n].err
    /\ Encode(generated[1].publicKey) = sxyz
    /\ Encode(generated[2].publicKey) = sbbb
    /\ Encode(generated[3].publicKey) = sAAAxyz123
    /\ \A n \in 4..Len(generated) : generated[n].err

\* C7 (as claimed): in the scenario the third address is reported with
\* totalAttempts exactly 3, whatever the worker count.
C7_ExactlyThree ==
    C7_Scenario /\ mpc = "done" =>
        /\ reported[1].Address = sAAAxyz123
        /\ reported[1].attempts = 3

\* C7 (amended): in the scenario the first two addresses are never published,
\* the third is the one Result, and totalAttempts is at least 3, exactly 3
\* when there is one worker.
C7_AtLeastThree ==
    C7_Scenario /\ mpc = "done" =>
        /\ reported[1].Address = sAAAxyz123
        /\ sends = 1
        /\ reported[1].attempts >= 3
        /\ numWorkers = 1 => reported[1].attempts = 3

\* C7 witness: the scenario run to its end by one worker.
C7_Witness ==
    /\ C7_Scenario
    /\ mpc = "done"
    /\ numWorkers = 1
    /\ reported[1].attempts = 3

\* C8: with caseSensitive set, a worker goes on to publish the keypair it
\* generated exactly when the address starts with the prefix (or the prefix
\* is empty) and ends with the postfix (or the postfix is empty); a postfix
\* equal to the address matches, a longer prefix or postfix does not.
C8_MatchRule ==
    \A w \in 1..numWorkers :
        HasKeypair(w) /\ pc[w] # "gen" /\ caseSensitive =>
            LET a == Encode(key[w].publicKey)
            IN  /\ Accepted(w) <=>
                      /\ prefix = << >> \/ IsPrefixOf(prefix, a)
                      /\ postfix = << >> \/ IsSuffixOf(postfix, a)
                /\ prefix = << >> /\ postfix = a => Accepted(w)
                /\ Len(prefix) > Len(a) \/ Len(postfix) > Len(a) => ~Accepted(w)

\* C8 witness: postfix xyz, no prefix, and the address xyz published.
C8_Witness ==
    /\ caseSensitive
    /\ prefix = sEmpty
    /\ postfix = sxyz
    /\ key[1] = Keypair(kxyz)
    /\ Len(resultCh) = 1
    /\ resultCh[1].Address = sxyz

\* C9: with caseSensitive unset, a worker goes on to publish exactly when the
\* matcher accepts the lower-cased address against the lower-cased prefix and
\* postfix (in either mode), and the Result it sends carries the address as
\* encoded, not folded.
C9_UniformFolding ==
    \A w \in 1..numWorkers :
        HasKeypair(w) /\ pc[w] # "gen" /\ ~caseSensitive =>
            LET a == Encode(key[w].publicKey)
            IN  /\ Accepted(w) <=>
                      Matches(ToLower(a), ToLower(prefix), ToLower(postfix), FALSE)
                /\ Accepted(w) <=>
                      Matches(ToLower(a), ToLower(prefix), ToLower(postfix), TRUE)
                /\ \A n \in 1..Len(resultCh) :
                      /\ resultCh[n].Address = a
                      /\ resultCh[n].PublicKey = key[w].publicKey

\* C9 witness: prefix aaa, case-insensitive, and the address AAAxyz123
\* published unfolded.
C9_Witness ==
    /\ ~caseSensitive
    /\ prefix = saaa
    /\ postfix = sEmpty
    /\ key[1] = Keypair(kAAAxyz123)
    /\ Len(resultCh) = 1
    /\ resultCh[1].Address = sAAAxyz123

\* C10: with prefix and postfix both empty the run ends in the validation
\* error: no worker is spawned, no key generated, no attempt counted, nothing
\* sent and nothing cancelled.
C10_RejectedBeforeWork ==
    prefix = << >> /\ postfix = << >> =>
        /\ mpc \in {"validate", "error"}
        /\ \A w \in Workers : pc[w] = "unspawned"
        /\ i = 0
        /\ wg = 0
        /\ totalIterations = 0
        /\ generated = << >>
        /\ sends = 0
        /\ resultCh = << >>
        /\ cancels = 0
        /\ ~ctxDone

\* C10 witness: the run rejected.
C10_Witness ==
    /\ prefix = << >>
    /\ postfix = << >>
    /\ mpc = "error"

\* C11 (as claimed): whenever the coordinator stands at wg.Wait(), ctx has
\* already been cancelled.
C11_CancelBeforeJoin == mpc = "wait" => ctxDone

\* C12: the step in which a worker's GenerateKey fails changes nothing but
\* that worker: it goes back to the loop-top check, nothing is sent, ctx is
\* not cancelled, the WaitGroup and the coordinator are untouched.
C12_FailureAbsorbed ==
    [][\A w \in Workers :
          pc[w] = "gen" /\ pc'[w] # "gen" /\ key'[w].err =>
              /\ pc'[w] = "check"
              /\ \A v \in Workers \ {w} : pc'[v] = pc[v]
              /\ resultCh' = resultCh
              /\ sends' = sends
              /\ ctxDone' = ctxDone
              /\ cancels' = cancels
              /\ wg' = wg
              /\ mpc' = mpc
              /\ result' = result
              /\ reported' = reported]_vars

\* C12 witness: a one-worker run whose first GenerateKey failed and which
\* went on to find and report a match.
C12_Witness ==
    /\ mpc = "done"
    /\ numWorkers = 1
    /\ Len(generated) >= 2
    /\ generated[1].err
    /\ Len(reported) = 1

\* C13: ctx is cancelled, a worker has left its loop, or the coordinator is
\* past the receive only after a matching keypair was generated and sent;
\* while none was generated every spawned worker is in its loop and the
\* coordinator has not returned.
C13_NoNotFound ==
    /\ (\/ ctxDone
        \/ PastRecv
        \/ \E w \in Workers : pc[w] \in {"send", "cancel", "exit", "done"})
          => MatchIdx # {}
    /\ (ctxDone \/ PastRecv) => sends >= 1
    /\ MatchIdx = {} =>
          /\ \A w \in 1..i : pc[w] \in {"check", "inc", "gen"}
          /\ mpc \in {"validate", "error", "spawn", "recv"}

\* C13 witness: three keys generated, none matching, the coordinator blocked
\* in the receive and the workers still looping.
C13_Witness ==
    /\ MatchIdx = {}
    /\ Len(generated) >= 3
    /\ mpc = "recv"
    /\ \A w \in 1..numWorkers : pc[w] \in {"check", "inc", "gen"}

\* The integers of a JSON array of integers, in order: every maximal run of
\* digits is a number, negated when a minus sign stands before it.
IsDigit(c) == c >= 48 /\ c <= 57

NumStarts(s) ==
    {n \in 1..Len(s) : IsDigit(s[n]) /\ (n = 1 \/ ~IsDigit(s[n - 1]))}

NumEnd(s, n) ==
    CHOOSE m \in n..Len(s) :
        /\ \A k \in n..m : IsDigit(s[k])
        /\ m = Len(s) \/ ~IsDigit(s[m + 1])

RECURSIVE DigitsValue(_, _, _)
DigitsValue(s, n, m) ==
    IF m < n THEN 0 ELSE DigitsValue(s, n, m - 1) * 10 + (s[m] - 48)

NumAt(s, n) ==
    (IF n > 1 /\ s[n - 1] = 45 THEN 0 - 1 ELSE 1) * DigitsValue(s, n, NumEnd(s, n))

ParseIntArray(s) ==
    LET starts == NumStarts(s)
    IN  [k \in 1..Cardinality(starts) |->
            NumAt(s, CHOOSE n \in starts :
                        Cardinality({m \in starts : m < n}) = k - 1)]

\* C14: the JSON text the coordinator prints for the private key parses back
\* to the private key's bytes, same length and same order.
C14_JsonRoundTrip ==
    mpc = "done" =>
        /\ Len(reported) = 1
        /\ ParseIntArray(reported[1].pkJSON) = result.PrivateKey

\* C14 witness: the private key 255, 0, 55, 56, 57 printed as an indented
\* array of decimal integers.
C14_Witness ==
    /\ mpc = "done"
    /\ result.PrivateKey = <<255, 0, 55, 56, 57>>
    /\ reported[1].pkJSON =
          <<91, 10, 32, 32, 50, 53, 53, 44, 10, 32, 32, 48, 44,
            10, 32, 32, 53, 53, 44, 10, 32, 32, 53, 54, 44,
            10, 32, 32, 53, 55, 10, 93>>

\* C15 (as claimed): only the single winning worker signals cancellation, so
\* workers call cancel() at most once in a run.  The code does not keep this:
\* a second worker whose send goes through (see C2) also calls cancel().
C15_SingleCancel == cancels <= 1

\* C16: a worker that finds ctx cancelled at the top of an iteration returns in
\* that iteration: its step from the check goes to the return and leaves the
\* attempt counter, the key source's history, its keypair and the channel as
\* they are, and from the return the worker only runs its deferred wg.Done().
C16_ExitAtLoopTop ==
    [][\A w \in Workers :
          /\ (pc[w] = "check" /\ ctxDone /\ pc'[w] # "check") =>
                /\ pc'[w] = "exit"
                /\ UNCHANGED <<totalIterations, generated, key, resultCh,
                               sends, cancels>>
          /\ (pc[w] = "exit" /\ pc'[w] # "exit") =>
                /\ pc'[w] = "done"
                /\ UNCHANGED <<totalIterations, generated, key, resultCh,
                               sends, cancels>>
          /\ pc[w] = "done" => pc'[w] = "done"]_vars

\* Reached: a worker that held no matching key has returned after the
\* cancellation, so it left through the check at the top of the loop.
C16_Witness ==
    /\ ctxDone
    /\ numWorkers = 2
    /\ \E w \in 1..numWorkers :
          /\ pc[w] = "done"
          /\ ~HoldsMatch(w)
          /\ HasKeypair(w)

\* C17: a worker makes at most one publish attempt and both of its outcomes are
\* final: the select of lines 123-133 is left only to cancel() (the send went
\* through) or to the return (ctx.Done() was taken), and a worker past the
\* select never comes back to the loop: it makes no further increment, no
\* further GenerateKey call and no further send.
C17_PublishOnceTerminal ==
    [][\A w \in Workers :
          /\ (pc[w] = "send" /\ pc'[w] # "send") =>
                /\ pc'[w] \in {"cancel", "exit"}
                /\ pc'[w] = "cancel" <=> sends' = sends + 1
                /\ UNCHANGED <<totalIterations, generated, key>>
          /\ pc[w] \in {"cancel", "exit", "done"} =>
                /\ pc'[w] \in {"cancel", "exit", "done"}
                /\ key'[w] = key[w]
                /\ pc'[w] # pc[w] =>
                      UNCHANGED <<totalIterations, generated, sends, resultCh>>]_vars

\* Reached: two workers both came to the select with a matching key; one send
\* went through, the other worker took ctx.Done(), and both have returned.
C17_Witness ==
    /\ numWorkers = 2
    /\ \A w \in 1..numWorkers : HoldsMatch(w) /\ pc[w] = "done"
    /\ sends = 1
    /\ cancels = 1

\* The Results that left a worker: those in resultCh, the one the coordinator
\* received, and those it printed.
PublishedResults ==
    {resultCh[n] : n \in 1..Len(resultCh)}
    \cup (IF PastRecv THEN {result} ELSE {})
    \cup {[Address |-> reported[n].Address,
           PublicKey |-> reported[n].PublicKey,
           PrivateKey |-> reported[n].PrivateKey] : n \in 1..Len(reported)}

\* C18: every published Result, and so the reported one, is consistent and
\* satisfies the pattern: its address is the encoding of its public key, its
\* public and private key come from one and the same successful GenerateKey
\* call, and the address matches prefix and postfix under the case policy.
C18_ResultConsistent ==
    \A r \in PublishedResults :
        /\ r.Address = Encode(r.PublicKey)
        /\ \E n \in 1..Len(generated) :
              /\ ~generated[n].err
              /\ generated[n].publicKey = r.PublicKey
              /\ generated[n].privateKey = r.PrivateKey
        /\ \E w \in 1..numWorkers :
              /\ pc[w] \in {"cancel", "exit", "done"}
              /\ key[w].publicKey = r.PublicKey
              /\ key[w].privateKey = r.PrivateKey
        /\ Matches(r.Address, prefix, postfix, caseSensitive)

\* Reached: a case-insensitive search for AAA...xyz has printed a Result whose
\* address keeps its own case, after calls that failed or did not match.
C18_Witness ==
    /\ mpc = "done"
    /\ ~caseSensitive
    /\ prefix = sAAA
    /\ postfix = sxyz
    /\ Len(reported) = 1
    /\ reported[1].Address = sAAAxyz
    /\ reported[1].PublicKey = kAAAxyz
    /\ Len(generated) >= 2

\* Workers that have incremented the counter and not yet called GenerateKey.
BetweenIncAndGen == {w \in Workers : pc[w] = "gen"}

\* C19: the attempt accounting is exact.  The counter never decreases, every
\* increment of a worker adds one, the counter is the number of GenerateKey
\* calls made (failed ones counted) plus the workers standing between the
\* increment and the call, hence equal to the number of calls whenever every
\* worker is between iterations or has exited, and the printed total is the
\* number of calls.
C19_ExactAccounting ==
    /\ [](totalIterations = Len(generated) + Cardinality(BetweenIncAndGen))
    /\ [](mpc = "done" /\ reported # << >> =>
            reported[1].attempts = Len(generated))
    /\ [][/\ totalIterations' >= totalIterations
          /\ \A w \in Workers :
                pc[w] = "inc" /\ pc'[w] # "inc" =>
                    totalIterations' = totalIterations + 1]_vars

\* Reached: two workers both called GenerateKey, a call failed, and the run
\* printed a total equal to the number of calls.
C19_Witness ==
    /\ mpc = "done"
    /\ numWorkers = 2
    /\ \A w \in 1..numWorkers : key[w] # NoKey
    /\ \E n \in 1..Len(generated) : generated[n].err
    /\ Len(generated) >= 3
    /\ Len(reported) = 1
    /\ reported[1].attempts = Len(generated)

\* Workers that passed the loop-top check and have not incremented yet.
AboutToInc == {w \in Workers : pc[w] = "inc"}

\* C20: the work wasted after cancellation is bounded.  Once ctx is cancelled
\* no worker passes the loop-top check any more, so the only increments still
\* to come are those of the workers already past it, the canceller not among
\* them: the counter, with the increments still due, stays within K - 1 of its
\* value at the moment of cancellation, K the number of workers.
C20_BoundedWaste ==
    /\ ctxDone =>
          /\ totalIterations >= cancelMark
          /\ totalIterations + Cardinality(AboutToInc)
                <= cancelMark + numWorkers - 1
    /\ AllExited => totalIterations <= cancelMark + numWorkers - 1

\* Reached: three workers, a worker cancelled while the two others were past
\* the check, and the run ended with the counter K - 1 above the mark.
C20_Witness ==
    /\ AllExited
    /\ numWorkers = 3
    /\ cancels >= 1
    /\ cancelMark >= 1
    /\ totalIterations = cancelMark + numWorkers - 1

====
